---- MODULE Spec2Model ----
(***************************************************************************)
(* Model of the approval reconciliation in src/src/lib/hooks/useAuth.ts:   *)
(* the session effect (getSession / onAuthStateChange), the profile effect *)
(* and every suspension point of loadProfile, run against a backing store  *)
(* holding the profiles and pending_users tables (Spec, SpecReject,        *)
(* SpecLive); of the project-chat edge function in                         *)
(* src/supabase/functions/project-chat/index.ts.debug, both variants of    *)
(* the handler serving concurrent requests (SpecChat); and of the chat     *)
(* widget src/src/components/chat/ProjectPilot.tsx.new (SpecPilot).        *)
(***************************************************************************)
EXTENDS Integers, Sequences, FiniteSets, TLC

\* ---------------------------------------------------------------- bounds
MaxAuth == 1      \* auth changes (sign-in, switch, refresh, sign-out) explored
MaxReq == 2       \* requests the project-chat function serves, concurrently
MaxSends == 3     \* messages typed into the chat widget

\* ------------------------------------------------------------ value sets
None == "none"
Ids == {"u1", "u2"}
\* The profile effect runs once per change of user: after getSession, after
\* each auth change, and after each sign-out one of those runs performs.
MaxRuns == 2 * (MaxAuth + 1)
RunIds == 1..MaxRuns

\* UserProfile.is_approved as stored: true / false / unset, or no row at all
ProfileVals == {"true", "false", "unset", "absent"}
\* pending_users.status, or no row at all
PendingVals == {"pending", "approved", "rejected", "absent"}

NoProfile == [id |-> None, is_approved |-> None]

VARIABLES
  session,            \* the auth collaborator's current session user id
  getSessionPending,  \* the getSession() promise of the session effect
  mounted,            \* the hook is mounted (subscription alive)
  user,               \* useState user (id of the User object, or None)
  fresh,              \* user holds a User object the profile effect has not seen
  effectUser,         \* the user the profile effect last ran with
  profile,            \* useState profile
  loading,            \* useState loading
  isApproved,         \* useState isApproved: "null" / "true" / "false"
  isPendingApproval,  \* useState isPendingApproval
  profiles,           \* table profiles: id -> is_approved
  pending_users,      \* table pending_users: id -> status
  runs,               \* the loadProfile invocations
  nruns,              \* number of loadProfile invocations so far
  nauth,              \* number of auth changes so far
  snapBy,             \* which invocation last set each snapshot field
  \* ---- project-chat edge function
  requests,           \* the handler invocations: inputs, position, response
  chat_conversations, \* table chat_conversations: the rows inserted
  chat_messages,      \* table chat_messages, in insertion order
  \* ---- ProjectPilot widget
  isOpen,             \* useState isOpen
  isMinimized,        \* useState isMinimized
  message,            \* useState message: the text in the input
  messages,           \* useState messages
  isLoading,          \* useState isLoading
  timers,             \* the setTimeout callbacks not yet run, oldest first
  nsends              \* number of messages typed so far

chatVars == <<requests, chat_conversations, chat_messages>>
pilotVars == <<isOpen, isMinimized, message, messages, isLoading, timers, nsends>>

vars == <<session, getSessionPending, mounted, user, fresh, effectUser,
          profile, loading, isApproved, isPendingApproval,
          profiles, pending_users, runs, nruns, nauth, snapBy,
          chatVars, pilotVars>>

hookVars == <<session, getSessionPending, mounted, user, fresh, effectUser,
              profile, loading, isApproved, isPendingApproval,
              profiles, pending_users, runs, nruns, nauth, snapBy>>

storeVars == <<profiles, pending_users>>
snapVars == <<profile, isApproved, isPendingApproval, snapBy>>

IdleRun == [uid |-> None, pc |-> "idle", data |-> "nil", pend |-> "nil",
            branch |-> "none", trace |-> <<>>, writeOk |-> FALSE,
            outApproved |-> "nil", outPending |-> FALSE, prev |-> "none",
            prevFailed |-> "none", revoked |-> FALSE]

DoneRuns == {r \in RunIds : runs[r].pc = "done"}

\* The branch of a completed run for identity u whose profiles write landed
\* ("none" when there is no such run).
Mirrored(u) ==
  LET W == {r \in DoneRuns : runs[r].uid = u /\ runs[r].writeOk} IN
    IF W = {} THEN "none" ELSE runs[CHOOSE r \in W : TRUE].branch

\* The branch of a completed run for identity u whose profiles write failed
\* ("none" when there is no such run).
MirrorFailed(u) ==
  LET W == {r \in DoneRuns : /\ runs[r].uid = u /\ ~runs[r].writeOk
                             /\ runs[r].branch \in {"4b", "4c"}} IN
    IF W = {} THEN "none" ELSE runs[CHOOSE r \in W : TRUE].branch

\* ------------------------------------------- project-chat: value sets
Reqs == 1..MaxReq
\* Conversation ids: request r creates conversation r; one conversation exists
\* beforehand.  A request without conversationId carries a falsy one.
NoConversation == 0
Existing == MaxReq + 1

Variants == {"debug", "strict"}

\* A handler invocation: the request (method, Authorization header, body and
\* its fields), the handler's locals, the calls it has made, its response.
IdleRequest ==
  [pc |-> "idle", variant |-> "strict", method |-> "POST", authHeader |-> FALSE,
   body |-> "object", projectId |-> FALSE, message |-> FALSE,
   conversationId |-> NoConversation, user |-> "nil", project |-> "nil",
   convoId |-> NoConversation, history |-> <<>>, historyError |-> FALSE,
   messages |-> <<>>,
   calls |-> <<>>, status |-> 0, sent |-> 0]

\* No request has arrived; the existing conversation holds one exchange.
ChatStart ==
  /\ requests = [r \in Reqs |-> IdleRequest]
  /\ chat_conversations = {Existing}
  /\ chat_messages =
       <<[conversation_id |-> Existing, role |-> "user", content |-> 0],
         [conversation_id |-> Existing, role |-> "assistant", content |-> 0]>>

\* The widget has mounted: the useState defaults, no timer set.
PilotStart ==
  /\ isOpen = FALSE
  /\ isMinimized = FALSE
  /\ message = ""
  /\ messages = <<>>
  /\ isLoading = FALSE
  /\ timers = <<>>
  /\ nsends = 0

\* ------------------------------------------------------------------ Init
\* The hook has mounted: both effects have run once with user = null, so the
\* snapshot is the useState defaults, getSession() is pending and the
\* subscription is alive.  The two identities are interchangeable, so a
\* session present at mount is taken to be u1's; a pending_users row is
\* enumerated only where a run can read it (is_approved unset).
Init ==
  /\ session \in {None, "u1"}
  /\ getSessionPending = TRUE
  /\ mounted = TRUE
  /\ user = None
  /\ fresh = FALSE
  /\ effectUser = None
  /\ profile = NoProfile
  /\ loading = TRUE
  /\ isApproved = "null"
  /\ isPendingApproval = FALSE
  /\ profiles \in [Ids -> ProfileVals]
  /\ pending_users \in [Ids -> PendingVals]
  /\ \A i \in Ids : profiles[i] # "unset" => pending_users[i] = "absent"
  /\ runs = [r \in RunIds |-> IdleRun]
  /\ nruns = 0
  /\ nauth = 0
  /\ snapBy = [profile |-> 0, isApproved |-> 0, isPendingApproval |-> 0]
  /\ ChatStart
  /\ PilotStart

\* ------------------------------------------------------------ setUser(x)
\* setUser(session?.user ?? null), setLoading(false).  A User object for the
\* id already held is either the same object (no re-render) or a new one.
\* State updates of an unmounted hook are dropped.
SetUser(x) ==
  IF mounted
  THEN /\ user' = x
       /\ loading' = FALSE
       /\ \/ x = None /\ fresh' = FALSE
          \/ x # None /\ fresh' = TRUE
          \/ x # None /\ user = x /\ fresh' = fresh
  ELSE UNCHANGED <<user, loading, fresh>>

\* supabase.auth.getSession().then(...)
GetSessionResolve ==
  /\ getSessionPending
  /\ getSessionPending' = FALSE
  /\ SetUser(session)
  /\ UNCHANGED <<session, mounted, effectUser, snapVars, storeVars, runs,
                 nruns, nauth>>

\* The auth collaborator changes the session (sign-in, switch, token refresh,
\* sign-out) and notifies the onAuthStateChange subscriber, if still subscribed.
AuthStateChange(s) ==
  /\ nauth < MaxAuth
  /\ ~(s = None /\ session = None)
  /\ session' = s
  /\ nauth' = nauth + 1
  /\ SetUser(s)
  /\ UNCHANGED <<getSessionPending, mounted, effectUser, snapVars, storeVars,
                 runs, nruns>>

\* return () => subscription.unsubscribe(): the hook unmounts.  Its state is
\* discarded with it (shown here as the useState defaults); the loadProfile
\* invocations in flight are not cancelled.
Unmount ==
  /\ mounted
  /\ mounted' = FALSE
  /\ user' = None /\ fresh' = FALSE /\ effectUser' = None /\ loading' = TRUE
  /\ profile' = NoProfile /\ isApproved' = "null" /\ isPendingApproval' = FALSE
  /\ snapBy' = [profile |-> 0, isApproved |-> 0, isPendingApproval |-> 0]
  /\ UNCHANGED <<session, getSessionPending, storeVars, runs, nruns, nauth>>

\* ------------------------------------------------- state setters of a run
\* setProfile(p) when setP, setIsApproved(a) and setIsPendingApproval(pe) when
\* setA, called by invocation r.  State updates of an unmounted hook are
\* dropped.
SetSnap(r, setP, p, setA, a, pe) ==
  IF mounted
  THEN /\ profile' = IF setP THEN p ELSE profile
       /\ isApproved' = IF setA THEN a ELSE isApproved
       /\ isPendingApproval' = IF setA THEN pe ELSE isPendingApproval
       /\ snapBy' = [profile |-> IF setP THEN r ELSE snapBy.profile,
                     isApproved |-> IF setA THEN r ELSE snapBy.isApproved,
                     isPendingApproval |->
                        IF setA THEN r ELSE snapBy.isPendingApproval]
  ELSE UNCHANGED snapVars

\* const { data } = await ...single(): the row, or null when the call fails
\* or finds no row.
FetchResult(table, id, ok) ==
  IF ok /\ table[id] # "absent" THEN table[id] ELSE "null"

\* Variants of ProfileDecision with a slip in one branch.
\* Branch 2 without the signOut call.
ProfileDecisionNoRevoke(data) ==
  CASE data = "null"  -> [set |-> FALSE, a |-> "nil", pe |-> FALSE, branch |-> "1",
                          pc |-> "done", call |-> <<>>]
    [] data = "false" -> [set |-> TRUE, a |-> "false", pe |-> FALSE, branch |-> "2",
                          pc |-> "done", call |-> <<>>]
    [] data = "true"  -> [set |-> TRUE, a |-> "true", pe |-> FALSE, branch |-> "3",
                          pc |-> "done", call |-> <<>>]
    [] OTHER          -> [set |-> FALSE, a |-> "nil", pe |-> FALSE, branch |-> "none",
                          pc |-> "fetchPending", call |-> <<"fetchPending">>]

\* Branch 3 without its return: the run goes on to the pending_users fetch.
ProfileDecisionNoReturn(data) ==
  CASE data = "null"  -> [set |-> FALSE, a |-> "nil", pe |-> FALSE, branch |-> "1",
                          pc |-> "done", call |-> <<>>]
    [] data = "false" -> [set |-> TRUE, a |-> "false", pe |-> FALSE, branch |-> "2",
                          pc |-> "signOut", call |-> <<"signOut">>]
    [] data = "true"  -> [set |-> TRUE, a |-> "true", pe |-> FALSE, branch |-> "3",
                          pc |-> "fetchPending", call |-> <<"fetchPending">>]
    [] OTHER          -> [set |-> FALSE, a |-> "nil", pe |-> FALSE, branch |-> "none",
                          pc |-> "fetchPending", call |-> <<"fetchPending">>]

\* The decision short-cut by the snapshot: an approval already shown is kept.
ProfileDecisionCached(data) ==
  CASE data = "null"  -> [set |-> FALSE, a |-> "nil", pe |-> FALSE, branch |-> "1",
                          pc |-> "done", call |-> <<>>]
    [] data # "null" /\ isApproved = "true" ->
                         [set |-> TRUE, a |-> "true", pe |-> FALSE, branch |-> "3",
                          pc |-> "done", call |-> <<>>]
    [] data = "false" -> [set |-> TRUE, a |-> "false", pe |-> FALSE, branch |-> "2",
                          pc |-> "signOut", call |-> <<"signOut">>]
    [] data = "true"  -> [set |-> TRUE, a |-> "true", pe |-> FALSE, branch |-> "3",
                          pc |-> "done", call |-> <<>>]
    [] OTHER          -> [set |-> FALSE, a |-> "nil", pe |-> FALSE, branch |-> "none",
                          pc |-> "fetchPending", call |-> <<"fetchPending">>]

\* Variant of ProfileDecision without the return of branch 2: the rejected
\* run goes on to the pending_users fetch instead of revoking.
ProfileDecisionFallsThrough(data) ==
  CASE data = "null"  -> [set |-> FALSE, a |-> "nil", pe |-> FALSE, branch |-> "1",
                          pc |-> "done", call |-> <<>>]
    [] data = "false" -> [set |-> TRUE, a |-> "false", pe |-> FALSE, branch |-> "2",
                          pc |-> "fetchPending", call |-> <<"fetchPending">>]
    [] data = "true"  -> [set |-> TRUE, a |-> "true", pe |-> FALSE, branch |-> "3",
                          pc |-> "done", call |-> <<>>]
    [] OTHER          -> [set |-> FALSE, a |-> "nil", pe |-> FALSE, branch |-> "none",
                          pc |-> "fetchPending", call |-> <<"fetchPending">>]

\* The decision on the fetched profile (lines 58-89): what the run sets, the
\* branch it is in and where it suspends next.
ProfileDecision(data) ==
  CASE data = "null"  -> [set |-> FALSE, a |-> "nil", pe |-> FALSE, branch |-> "1",
                          pc |-> "done", call |-> <<>>]
    [] data = "false" -> [set |-> TRUE, a |-> "false", pe |-> FALSE, branch |-> "2",
                          pc |-> "signOut", call |-> <<"signOut">>]
    [] data = "true"  -> [set |-> TRUE, a |-> "true", pe |-> FALSE, branch |-> "3",
                          pc |-> "done", call |-> <<>>]
    [] OTHER          -> [set |-> FALSE, a |-> "nil", pe |-> FALSE, branch |-> "none",
                          pc |-> "fetchPending", call |-> <<"fetchPending">>]

\* Variants of PendingDecision with a slip in one branch.
\* Branch 4b skipping the write when the snapshot already shows approval.
PendingDecisionSkipsKnown(pend) ==
  CASE pend = "pending"  -> [set |-> TRUE, a |-> "false", pe |-> TRUE, branch |-> "4a",
                             pc |-> "signOut", call |-> <<"signOut">>]
    [] pend = "approved" /\ isApproved = "true" ->
                            [set |-> TRUE, a |-> "true", pe |-> FALSE, branch |-> "4b",
                             pc |-> "done", call |-> <<>>]
    [] pend = "approved" -> [set |-> TRUE, a |-> "true", pe |-> FALSE, branch |-> "4b",
                             pc |-> "update", call |-> <<"update">>]
    [] pend = "rejected" -> [set |-> TRUE, a |-> "false", pe |-> FALSE, branch |-> "4c",
                             pc |-> "update", call |-> <<"update">>]
    [] OTHER             -> [set |-> TRUE, a |-> "true", pe |-> FALSE, branch |-> "4d",
                             pc |-> "done", call |-> <<>>]

\* Branch 4c revoking the session before (and instead of) the write.
PendingDecisionRevokesFirst(pend) ==
  CASE pend = "pending"  -> [set |-> TRUE, a |-> "false", pe |-> TRUE, branch |-> "4a",
                             pc |-> "signOut", call |-> <<"signOut">>]
    [] pend = "approved" -> [set |-> TRUE, a |-> "true", pe |-> FALSE, branch |-> "4b",
                             pc |-> "update", call |-> <<"update">>]
    [] pend = "rejected" -> [set |-> TRUE, a |-> "false", pe |-> FALSE, branch |-> "4c",
                             pc |-> "signOut", call |-> <<"signOut">>]
    [] OTHER             -> [set |-> TRUE, a |-> "true", pe |-> FALSE, branch |-> "4d",
                             pc |-> "done", call |-> <<>>]

\* An unreadable or missing pending_users row taken as a pending one.
PendingDecisionDenyDefault(pend) ==
  CASE pend = "pending"  -> [set |-> TRUE, a |-> "false", pe |-> TRUE, branch |-> "4a",
                             pc |-> "signOut", call |-> <<"signOut">>]
    [] pend = "approved" -> [set |-> TRUE, a |-> "true", pe |-> FALSE, branch |-> "4b",
                             pc |-> "update", call |-> <<"update">>]
    [] pend = "rejected" -> [set |-> TRUE, a |-> "false", pe |-> FALSE, branch |-> "4c",
                             pc |-> "update", call |-> <<"update">>]
    [] OTHER             -> [set |-> TRUE, a |-> "false", pe |-> TRUE, branch |-> "4a",
                             pc |-> "signOut", call |-> <<"signOut">>]


\* Branch 4a without the pending flag.
PendingDecisionNoFlag(pend) ==
  CASE pend = "pending"  -> [set |-> TRUE, a |-> "false", pe |-> FALSE, branch |-> "4a",
                             pc |-> "signOut", call |-> <<"signOut">>]
    [] pend = "approved" -> [set |-> TRUE, a |-> "true", pe |-> FALSE, branch |-> "4b",
                             pc |-> "update", call |-> <<"update">>]
    [] pend = "rejected" -> [set |-> TRUE, a |-> "false", pe |-> FALSE, branch |-> "4c",
                             pc |-> "update", call |-> <<"update">>]
    [] OTHER             -> [set |-> TRUE, a |-> "true", pe |-> FALSE, branch |-> "4d",
                             pc |-> "done", call |-> <<>>]

\* Branch 4d mirroring its approval into the profile row.
PendingDecisionMirrorsDefault(pend) ==
  CASE pend = "pending"  -> [set |-> TRUE, a |-> "false", pe |-> TRUE, branch |-> "4a",
                             pc |-> "signOut", call |-> <<"signOut">>]
    [] pend = "approved" -> [set |-> TRUE, a |-> "true", pe |-> FALSE, branch |-> "4b",
                             pc |-> "update", call |-> <<"update">>]
    [] pend = "rejected" -> [set |-> TRUE, a |-> "false", pe |-> FALSE, branch |-> "4c",
                             pc |-> "update", call |-> <<"update">>]
    [] OTHER             -> [set |-> TRUE, a |-> "true", pe |-> FALSE, branch |-> "4b",
                             pc |-> "update", call |-> <<"update">>]

\* The decision on the fetched pending_users row (lines 91-138).
PendingDecision(pend) ==
  CASE pend = "pending"  -> [set |-> TRUE, a |-> "false", pe |-> TRUE, branch |-> "4a",
                             pc |-> "signOut", call |-> <<"signOut">>]
    [] pend = "approved" -> [set |-> TRUE, a |-> "true", pe |-> FALSE, branch |-> "4b",
                             pc |-> "update", call |-> <<"update">>]
    [] pend = "rejected" -> [set |-> TRUE, a |-> "false", pe |-> FALSE, branch |-> "4c",
                             pc |-> "update", call |-> <<"update">>]
    [] OTHER             -> [set |-> TRUE, a |-> "true", pe |-> FALSE, branch |-> "4d",
                             pc |-> "done", call |-> <<>>]

\* Variant of UpdateValue writing true in both branches.
UpdateValueAlwaysTrue(branch) == "true"

\* Variant of UpdateValue writing false in both branches.
UpdateValueAlwaysFalse(branch) == "false"

\* .update({ is_approved: ... }): the value each writing branch mirrors.
UpdateValue(branch) == IF branch = "4b" THEN "true" ELSE "false"

\* The object passed to .update(...) (lines 111 and 120): the columns written.
UpdatePayload(branch) == [is_approved |-> UpdateValue(branch)]

\* Variant of AfterUpdate revoking the session after the write in branch 4b
\* as well.
AfterUpdateAlwaysRevokes(branch) == [pc |-> "signOut", call |-> <<"signOut">>]

\* Variant of AfterUpdate that issues the write again instead of going on.
AfterUpdateRetries(branch) == [pc |-> "update", call |-> <<"update">>]

\* Variant of AfterUpdate returning after the write in branch 4c as well.
AfterUpdateNoRevoke(branch) == [pc |-> "done", call |-> <<>>]

\* What follows the awaited update (lines 113, 122-123).
AfterUpdate(branch) ==
  IF branch = "4b" THEN [pc |-> "done", call |-> <<>>]
                   ELSE [pc |-> "signOut", call |-> <<"signOut">>]

\* Variant of AfterSignOut with signOut not awaited: the toast is shown
\* before the call has returned.
AfterSignOutNotAwaited(branch) ==
  <<IF branch = "4a" THEN "toastPending" ELSE "toastDenied",
    "signOutReturned",
    "navigate">>

\* What follows the awaited signOut: toast, then navigate("/login").
AfterSignOut(branch) ==
  <<"signOutReturned",
    IF branch = "4a" THEN "toastPending" ELSE "toastDenied",
    "navigate">>

\* ------------------------------------------------------- the profile effect
\* useEffect(..., [user, toast, navigate]): loadProfile() up to its first await.
RunEffect ==
  /\ mounted
  /\ user # effectUser \/ fresh
  /\ nruns < MaxRuns
  /\ LET r == nruns + 1 IN
       /\ nruns' = r
       /\ effectUser' = user
       /\ fresh' = FALSE
       /\ IF user = None
          THEN /\ SetSnap(r, TRUE, NoProfile, TRUE, "null", FALSE)
               /\ runs' = [runs EXCEPT ![r] =
                    [IdleRun EXCEPT !.pc = "done", !.branch = "0",
                                    !.outApproved = "null", !.outPending = FALSE]]
          ELSE /\ UNCHANGED snapVars
               /\ runs' = [runs EXCEPT ![r] =
                    [IdleRun EXCEPT !.uid = user, !.pc = "fetchProfile",
                                    !.trace = <<"fetchProfile">>,
                                    !.prev = Mirrored(user),
                                    !.prevFailed = MirrorFailed(user)]]
  /\ UNCHANGED <<session, getSessionPending, mounted, user, loading,
                 storeVars, nauth>>

\* The profiles query resolves: lines 52-89.
ProfileResp(r, ok) ==
  /\ runs[r].pc = "fetchProfile"
  /\ LET data == FetchResult(profiles, runs[r].uid, ok)
         d == ProfileDecision(data)
     IN /\ SetSnap(r, TRUE,
                   IF data = "null" THEN NoProfile
                   ELSE [id |-> runs[r].uid, is_approved |-> data],
                   d.set, d.a, d.pe)
        /\ runs' = [runs EXCEPT ![r] =
             [@ EXCEPT !.data = data, !.pc = d.pc, !.branch = d.branch,
                       !.trace = @ \o d.call,
                       !.outApproved = IF d.set THEN d.a ELSE @,
                       !.outPending = IF d.set THEN d.pe ELSE @]]
  /\ UNCHANGED <<session, getSessionPending, mounted, user, fresh, effectUser,
                 loading, storeVars, nruns, nauth>>

\* The pending_users query resolves: lines 85-138.
PendingResp(r, ok) ==
  /\ runs[r].pc = "fetchPending"
  /\ LET pend == FetchResult(pending_users, runs[r].uid, ok)
         d == PendingDecision(pend)
     IN /\ SetSnap(r, FALSE, profile, TRUE, d.a, d.pe)
        /\ runs' = [runs EXCEPT ![r] =
             [@ EXCEPT !.pend = pend, !.pc = d.pc, !.branch = d.branch,
                       !.trace = @ \o d.call,
                       !.outApproved = d.a, !.outPending = d.pe]]
  /\ UNCHANGED <<session, getSessionPending, mounted, user, fresh, effectUser,
                 loading, storeVars, nruns, nauth>>

\* Variant of UpdateResp that also removes the mirrored pending_users row.
UpdateRespClearsPending(r, ok) ==
  /\ runs[r].pc = "update"
  /\ LET n == AfterUpdate(runs[r].branch) IN
       runs' = [runs EXCEPT ![r] =
         [@ EXCEPT !.writeOk = ok, !.pc = n.pc, !.trace = @ \o n.call]]
  /\ profiles' = IF ok /\ profiles[runs[r].uid] # "absent"
                 THEN [profiles EXCEPT ![runs[r].uid] =
                         UpdatePayload(runs[r].branch).is_approved]
                 ELSE profiles
  /\ pending_users' = IF ok THEN [pending_users EXCEPT ![runs[r].uid] = "absent"]
                      ELSE pending_users
  /\ UNCHANGED <<session, getSessionPending, mounted, user, fresh, effectUser,
                 loading, snapVars, nruns, nauth>>

\* The profiles update resolves: lines 109-113 and 118-123.
UpdateResp(r, ok) ==
  /\ runs[r].pc = "update"
  /\ LET n == AfterUpdate(runs[r].branch) IN
       runs' = [runs EXCEPT ![r] =
         [@ EXCEPT !.writeOk = ok, !.pc = n.pc, !.trace = @ \o n.call]]
  /\ profiles' = IF ok /\ profiles[runs[r].uid] # "absent"
                 THEN [profiles EXCEPT ![runs[r].uid] =
                         UpdatePayload(runs[r].branch).is_approved]
                 ELSE profiles
  /\ UNCHANGED <<session, getSessionPending, mounted, user, fresh, effectUser,
                 loading, snapVars, pending_users, nruns, nauth>>

\* Variant of SignOutResp returning early when signOut reports an error.
SignOutRespStopsOnError(r, ok) ==
  /\ runs[r].pc = "signOut"
  /\ runs' = [runs EXCEPT ![r] =
       [@ EXCEPT !.pc = "done", !.revoked = ok /\ session # None,
                 !.trace = @ \o (IF ok THEN AfterSignOut(runs[r].branch)
                                 ELSE <<"signOutReturned">>)]]
  /\ IF ok
     THEN /\ session' = None
          /\ SetUser(None)
     ELSE UNCHANGED <<session, user, loading, fresh>>
  /\ UNCHANGED <<getSessionPending, mounted, effectUser, snapVars, storeVars,
                 nruns, nauth>>

\* supabase.auth.signOut() resolves: the session is revoked (the subscriber
\* is notified) unless the call failed; then toast and navigate.
SignOutResp(r, ok) ==
  /\ runs[r].pc = "signOut"
  /\ runs' = [runs EXCEPT ![r] =
       [@ EXCEPT !.pc = "done", !.revoked = ok /\ session # None,
                 !.trace = @ \o AfterSignOut(runs[r].branch)]]
  /\ IF ok
     THEN /\ session' = None
          /\ SetUser(None)
     ELSE UNCHANGED <<session, user, loading, fresh>>
  /\ UNCHANGED <<getSessionPending, mounted, effectUser, snapVars, storeVars,
                 nruns, nauth>>

\* A step of the hook: the edge function and the widget are other programs.
HookStep == UNCHANGED <<chatVars, pilotVars>>

Next ==
  \/ GetSessionResolve /\ HookStep
  \/ \E s \in Ids \cup {None} : AuthStateChange(s) /\ HookStep
  \/ Unmount /\ HookStep
  \/ RunEffect /\ HookStep
  \/ \E r \in RunIds, ok \in BOOLEAN : ProfileResp(r, ok) /\ HookStep
  \/ \E r \in RunIds, ok \in BOOLEAN : PendingResp(r, ok) /\ HookStep
  \/ \E r \in RunIds, ok \in BOOLEAN : UpdateResp(r, ok) /\ HookStep
  \/ \E r \in RunIds, ok \in BOOLEAN : SignOutResp(r, ok) /\ HookStep

Spec == Init /\ [][Next]_vars

\* An awaited call rejects instead of resolving: loadProfile has no try/catch
\* and the effect calls it without a catch, so the invocation ends there with
\* an unhandled rejection and runs none of its remaining statements.
Reject(r) ==
  /\ runs[r].pc \in {"fetchProfile", "fetchPending", "update", "signOut"}
  /\ runs' = [runs EXCEPT ![r] = [@ EXCEPT !.pc = "aborted"]]
  /\ UNCHANGED <<session, getSessionPending, mounted, user, fresh, effectUser,
                 loading, snapVars, storeVars, nruns, nauth>>

\* The hook with collaborators whose calls can also reject.
SpecReject == Init /\ [][Next \/ \E r \in RunIds : Reject(r) /\ HookStep]_vars

\* ============================================ project-chat edge function
\* A step of the edge function: the hook and the widget are other programs.
ChatStep == UNCHANGED <<hookVars, pilotVars>>

\* return new Response(..., { status }): the handler's one response.
Reply(q, status) == [q EXCEPT !.pc = "done", !.status = status, !.sent = @ + 1]

\* The handler goes on to its next awaited call.
Await(q, pc) == [q EXCEPT !.pc = pc, !.calls = Append(@, pc)]

\* select("role, content").eq("conversation_id", c).order("created_at"): the
\* rows of a conversation, oldest first.
HistoryOf(c) ==
  LET rows == SelectSeq(chat_messages, LAMBDA m : m.conversation_id = c)
  IN [i \in DOMAIN rows |-> [role |-> rows[i].role, content |-> rows[i].content]]

\* Variant of OnStoreError in which no handler looks at the error of a write.
OnStoreErrorIgnored(variant) == "continue"

\* What the handler does with the error of a chat_messages query: the strict
\* handler answers 500 (lines 388-396, 450-458, 488-496), the debug handler
\* logs it and goes on (lines 173-175, 189-191, 234-236).
OnStoreError(variant) == IF variant = "strict" THEN "reply500" ELSE "continue"

\* The status for a body req.json() cannot parse, or that parses to null: the
\* debug handler catches it (lines 55-70), in the strict handler the throw
\* reaches the outer catch (lines 314, 508-518).
OnBadBody(variant) == IF variant = "debug" THEN 400 ELSE 500

\* serve(async (req) => ...) up to the first await: OPTIONS, then the
\* Authorization header (lines 13-46, 286-306).  Requests are numbered in
\* their order of arrival, and one deployment runs one variant of the handler.
Receive(r, variant, method, authHeader) ==
  /\ requests[r].pc = "idle"
  /\ \A p \in Reqs : p < r => requests[p].pc # "idle" /\ requests[p].variant = variant
  /\ LET q == [IdleRequest EXCEPT !.variant = variant, !.method = method,
                 !.authHeader = authHeader]
     IN requests' = [requests EXCEPT ![r] =
          IF method = "OPTIONS" THEN Reply(q, 200)
          ELSE IF ~authHeader THEN Reply(q, 401)
          ELSE Await(q, "json")]
  /\ UNCHANGED <<chat_conversations, chat_messages>>
  /\ ChatStep

\* await req.json() returns the body or throws; then the required fields
\* (lines 54-83, 314-324).  The body is what the client sent: it is first
\* looked at here.  Only an object has fields, and a conversationId is drawn
\* only for a body the handler goes on with.
JsonResolve(r, body, projectId, msg, conversationId) ==
  /\ requests[r].pc = "json"
  /\ body # "object" => ~projectId /\ ~msg
  /\ conversationId # NoConversation => projectId /\ msg
  /\ LET q == [requests[r] EXCEPT !.body = body, !.projectId = projectId,
                 !.message = msg, !.conversationId = conversationId] IN
       requests' = [requests EXCEPT ![r] =
         IF q.body # "object" THEN Reply(q, OnBadBody(q.variant))
         ELSE IF ~q.projectId \/ ~q.message THEN Reply(q, 400)
         ELSE Await(q, "getUser")]
  /\ UNCHANGED <<chat_conversations, chat_messages>>
  /\ ChatStep

\* await supabaseClient.auth.getUser(token) (lines 87-102, 327-337).
GetUserResolve(r, res) ==
  /\ requests[r].pc = "getUser"
  /\ LET q == [requests[r] EXCEPT !.user = res] IN
       requests' = [requests EXCEPT ![r] =
         CASE res = "throw" -> Reply(q, 500)
           [] res = "none"  -> Reply(q, 401)
           [] OTHER         -> Await(q, "project")]
  /\ UNCHANGED <<chat_conversations, chat_messages>>
  /\ ChatStep

\* The projects query; then convoId = conversationId and, without one, the
\* chat_conversations insert is issued (lines 108-142, 340-366).
ProjectResolve(r, res) ==
  /\ requests[r].pc = "project"
  /\ LET q == [requests[r] EXCEPT !.project = res] IN
       requests' = [requests EXCEPT ![r] =
         CASE res = "throw" -> Reply(q, 500)
           [] res = "none"  -> Reply(q, 404)
           [] OTHER ->
                IF q.conversationId = NoConversation
                THEN Await(q, "insertConversation")
                ELSE Await([q EXCEPT !.convoId = q.conversationId], "history")]
  /\ UNCHANGED <<chat_conversations, chat_messages>>
  /\ ChatStep

\* The chat_conversations insert (lines 134-160, 358-378).
ConversationResolve(r, res) ==
  /\ requests[r].pc = "insertConversation"
  /\ LET q == requests[r] IN
       requests' = [requests EXCEPT ![r] =
         IF res = "row" THEN Await([q EXCEPT !.convoId = r], "history")
         ELSE Reply(q, 500)]
  /\ chat_conversations' =
       IF res = "row" THEN chat_conversations \cup {r} ELSE chat_conversations
  /\ UNCHANGED chat_messages
  /\ ChatStep


\* The chat_messages history query (lines 167-177, 382-396).
HistoryResolve(r, res) ==
  /\ requests[r].pc = "history"
  /\ LET q == requests[r]
         next == IF q.variant = "strict" THEN "embedding" ELSE "insertUser"
     IN requests' = [requests EXCEPT ![r] =
          CASE res = "throw" -> Reply(q, 500)
            [] res = "rows"  -> Await([q EXCEPT !.history = HistoryOf(q.convoId)], next)
            [] OTHER ->
                 IF OnStoreError(q.variant) = "reply500" THEN Reply(q, 500)
                 ELSE Await([q EXCEPT !.historyError = TRUE], next)]
  /\ UNCHANGED <<chat_conversations, chat_messages>>
  /\ ChatStep

\* openai.embeddings.create (strict handler, lines 399-404).
EmbeddingResolve(r, res) ==
  /\ requests[r].pc = "embedding"
  /\ requests' = [requests EXCEPT ![r] =
       IF res = "throw" THEN Reply(@, 500) ELSE Await(@, "search")]
  /\ UNCHANGED <<chat_conversations, chat_messages>>
  /\ ChatStep

\* rpc("match_pm_knowledge"): an error is logged and the handler goes on
\* without knowledge context; then the user message insert is issued
\* (strict handler, lines 407-448).
SearchResolve(r, res) ==
  /\ requests[r].pc = "search"
  /\ requests' = [requests EXCEPT ![r] =
       IF res = "throw" THEN Reply(@, 500) ELSE Await(@, "insertUser")]
  /\ UNCHANGED <<chat_conversations, chat_messages>>
  /\ ChatStep

\* The insert of the user message resolves; then the messages for the model
\* are assembled (history.map throws on a null history) and the completion
\* is requested (lines 181-219, 442-473).
SaveUserResolve(r, res) ==
  /\ requests[r].pc = "insertUser"
  /\ LET q == requests[r]
         mine == [role |-> "user", content |-> r]
     IN /\ requests' = [requests EXCEPT ![r] =
             CASE res = "throw" -> Reply(q, 500)
               [] res = "error" /\ OnStoreError(q.variant) = "reply500" -> Reply(q, 500)
               [] q.historyError -> Reply(q, 500)
               [] OTHER ->
                    Await([q EXCEPT !.messages =
                             <<[role |-> "system", content |-> 0]>> \o q.history
                               \o <<mine>>],
                          "completion")]
        /\ chat_messages' =
             IF res = "ok"
             THEN Append(chat_messages,
                         [conversation_id |-> q.convoId, role |-> "user", content |-> r])
             ELSE chat_messages
  /\ UNCHANGED chat_conversations
  /\ ChatStep

\* openai.chat.completions.create returns or throws; then the insert of the
\* assistant message is issued (lines 213-232 and 249-260, 468-486).
CompletionResolve(r, res) ==
  /\ requests[r].pc = "completion"
  /\ requests' = [requests EXCEPT ![r] =
       IF res = "throw" THEN Reply(@, 500) ELSE Await(@, "insertAssistant")]
  /\ UNCHANGED <<chat_conversations, chat_messages>>
  /\ ChatStep

\* The insert of the assistant message resolves; the 200 response carries
\* convoId (lines 226-248, 480-507).
SaveAssistantResolve(r, res) ==
  /\ requests[r].pc = "insertAssistant"
  /\ LET q == requests[r] IN
       /\ requests' = [requests EXCEPT ![r] =
            CASE res = "throw" -> Reply(q, 500)
              [] res = "error" /\ OnStoreError(q.variant) = "reply500" -> Reply(q, 500)
              [] OTHER -> Reply(q, 200)]
       /\ chat_messages' =
            IF res = "ok"
            THEN Append(chat_messages,
                        [conversation_id |-> q.convoId, role |-> "assistant",
                         content |-> r])
            ELSE chat_messages
  /\ UNCHANGED chat_conversations
  /\ ChatStep

Outcomes == {"ok", "error", "throw"}

NextChat ==
  \/ \E r \in Reqs, variant \in Variants, method \in {"POST", "OPTIONS"},
        authHeader \in BOOLEAN :
       Receive(r, variant, method, authHeader)
  \/ \E r \in Reqs, body \in {"unparseable", "null", "object"},
        projectId \in BOOLEAN, msg \in BOOLEAN,
        conversationId \in {NoConversation, Existing} :
       JsonResolve(r, body, projectId, msg, conversationId)
  \/ \E r \in Reqs, res \in {"user", "none", "throw"} : GetUserResolve(r, res)
  \/ \E r \in Reqs, res \in {"row", "none", "throw"} : ProjectResolve(r, res)
  \/ \E r \in Reqs, res \in {"row", "error", "throw"} : ConversationResolve(r, res)
  \/ \E r \in Reqs, res \in {"rows", "error", "throw"} : HistoryResolve(r, res)
  \/ \E r \in Reqs, res \in {"ok", "throw"} : EmbeddingResolve(r, res)
  \/ \E r \in Reqs, res \in {"rows", "error", "throw"} : SearchResolve(r, res)
  \/ \E r \in Reqs, res \in Outcomes : SaveUserResolve(r, res)
  \/ \E r \in Reqs, res \in {"ok", "throw"} : CompletionResolve(r, res)
  \/ \E r \in Reqs, res \in Outcomes : SaveAssistantResolve(r, res)

\* The start of the edge function and of the widget: the hook stays as it is
\* at mount (one stored state is enough: neither reads the hook's tables).
InitQuiet ==
  /\ Init
  /\ session = None
  /\ profiles = [i \in Ids |-> "absent"]

SpecChat == InitQuiet /\ [][NextChat]_vars

\* ================================================== ProjectPilot widget
\* A step of the widget: the hook and the edge function are other programs.
PilotStep == UNCHANGED <<hookVars, chatVars>>

\* What can be in the input: blank text, text, text with leading blanks.
Texts == {" ", "a", " b"}

\* String.prototype.trim on those texts.
Trim(t) == CASE t = " "  -> ""
             [] t = " b" -> "b"
             [] OTHER    -> t

\* The input form is rendered: the widget is open and not minimized.
InputShown == isOpen /\ ~isMinimized

\* toggleChat (lines 70-73).
toggleChat ==
  /\ isOpen' = ~isOpen
  /\ isMinimized' = (IF isMinimized THEN FALSE ELSE isMinimized)
  /\ UNCHANGED <<message, messages, isLoading, timers, nsends>>
  /\ PilotStep

\* toggleMinimize (lines 75-77), on the header button of the open widget.
toggleMinimize ==
  /\ isOpen
  /\ isMinimized' = ~isMinimized
  /\ UNCHANGED <<isOpen, message, messages, isLoading, timers, nsends>>
  /\ PilotStep

\* onChange of the textarea (line 189): the user edits the input.
onChange(t) ==
  /\ InputShown
  /\ nsends < MaxSends
  /\ message' = t
  /\ nsends' = nsends + 1
  /\ UNCHANGED <<isOpen, isMinimized, messages, isLoading, timers>>
  /\ PilotStep

\* handleSendMessage (lines 40-68): blank input is ignored; else the input is
\* cleared, the user message appended, isLoading set and a timer started.
handleSendMessage ==
  IF Trim(message) = ""
  THEN UNCHANGED <<message, messages, isLoading, timers>>
  ELSE /\ message' = ""
       /\ messages' = Append(messages, [role |-> "user", content |-> message])
       /\ isLoading' = TRUE
       /\ timers' = Append(timers, message)

\* onKeyDown with Enter and no Shift (lines 192-197).
onKeyDown ==
  /\ InputShown
  /\ handleSendMessage
  /\ UNCHANGED <<isOpen, isMinimized, nsends>>
  /\ PilotStep

\* onSubmit through the send button, which is disabled while loading or
\* while the input is blank (lines 182-185, 199-203).
onSubmit ==
  /\ InputShown
  /\ ~(isLoading \/ Trim(message) = "")
  /\ handleSendMessage
  /\ UNCHANGED <<isOpen, isMinimized, nsends>>
  /\ PilotStep

\* The oldest setTimeout callback runs (lines 54-67; equal delays, so in the
\* order the timers were set): the simulated reply is appended and isLoading
\* cleared.
TimerFires ==
  /\ timers # <<>>
  /\ messages' = Append(messages, [role |-> "assistant", content |-> Head(timers)])
  /\ isLoading' = FALSE
  /\ timers' = Tail(timers)
  /\ UNCHANGED <<isOpen, isMinimized, message, nsends>>
  /\ PilotStep

NextPilot ==
  \/ toggleChat
  \/ toggleMinimize
  \/ \E t \in Texts : onChange(t)
  \/ onKeyDown
  \/ onSubmit
  \/ TimerFires

SpecPilot == InitQuiet /\ [][NextPilot]_vars

\* ================================================================ claims
Count(seq, x) == Cardinality({i \in DOMAIN seq : seq[i] = x})

Terminating == {"2", "4a", "4c"}

\* In this step invocation r sets isApproved to a and isPendingApproval to pe
\* (a mounted hook shows them at once).
Sets(r, a, pe) ==
  /\ runs'[r].outApproved = a
  /\ runs'[r].outPending = pe
  /\ mounted => /\ isApproved' = a
                /\ isPendingApproval' = pe
                /\ snapBy'.isApproved = r
                /\ snapBy'.isPendingApproval = r

\* C1: a run of loadProfile never writes a snapshot field once another
\* identity (or sign-out) has triggered the reconciler: every write of
\* profile, isApproved or isPendingApproval is made by a run for the identity
\* the profile effect last ran with.
C1_OnlyCurrentIdentityApplied ==
  [][\A f \in {"profile", "isApproved", "isPendingApproval"} :
       (snapBy'[f] # snapBy[f] /\ snapBy'[f] # 0) =>
         runs'[snapBy'[f]].uid = effectUser']_vars

\* The states of C2 and its snapshot step.
C2_State ==
  \A r \in RunIds : runs[r].data = "false" =>
    /\ runs[r].branch = "2"
    /\ runs[r].pc \in {"signOut", "done"}
    /\ Count(runs[r].trace, "signOut") = 1
    /\ runs[r].pc = "done" =>
         /\ Count(runs[r].trace, "toastDenied") = 1
         /\ Count(runs[r].trace, "toastPending") = 0

C2_Step ==
  \A r \in RunIds :
    runs[r].pc = "fetchProfile" /\ runs'[r].data = "false" => Sets(r, "false", FALSE)

C3_State ==
  \A r \in RunIds : runs[r].data = "unset" /\ runs[r].pend = "pending" =>
    /\ runs[r].branch = "4a"
    /\ runs[r].pc \in {"signOut", "done"}
    /\ Count(runs[r].trace, "signOut") = 1
    /\ Count(runs[r].trace, "update") = 0
    /\ runs[r].pc = "done" => Count(runs[r].trace, "toastPending") = 1

C3_Step ==
  \A r \in RunIds :
    runs[r].pc = "fetchPending" /\ runs'[r].pend = "pending" => Sets(r, "false", TRUE)

C4_State ==
  \A r \in RunIds : runs[r].data = "true" =>
    /\ runs[r].branch = "3"
    /\ runs[r].pc = "done"
    /\ runs[r].trace = <<"fetchProfile">>

C4_Step ==
  \A r \in RunIds :
    runs[r].pc = "fetchProfile" /\ runs'[r].data = "true" =>
      Sets(r, "true", FALSE) /\ session' = session

\* C4: a run whose fetched profile has is_approved = true ends in branch 3
\* with isApproved = true and isPendingApproval = false, and makes no call
\* after the profile fetch: no signOut, no toast, no navigation.
C4_ApprovedProfileStays == []C4_State /\ [][C4_Step]_vars

C4_Witness ==
  \E r \in RunIds :
    /\ runs[r].data = "true" /\ runs[r].pc = "done"
    /\ snapBy.isApproved = r /\ isApproved = "true" /\ session = runs[r].uid

\* A read of invocation r came back null although the row exists: the call
\* failed (rows are neither created nor deleted by the reconciler).
ProfileReadFailed(r) ==
  runs[r].data = "null" /\ profiles[runs[r].uid] # "absent"

PendingReadFailed(r) ==
  runs[r].pend = "null" /\ pending_users[runs[r].uid] # "absent"

\* C5 as stated: once a run for an identity with is_approved unset and
\* pending_users.status = approved has completed, the stored is_approved is
\* true.
C5_AsStated ==
  \A r \in DoneRuns :
    runs[r].data = "unset" /\ pending_users[runs[r].uid] = "approved" =>
      profiles[runs[r].uid] = "true"

\* C5 (amended): when the run reads status approved and its profiles update
\* succeeds, the stored is_approved is true from its completion on, and a
\* run for the same identity started afterwards makes no pending_users fetch
\* and no write: it ends in branch 3, or in branch 1 if its profile fetch
\* fails.
C5_MirroredApproval ==
  /\ \A r \in DoneRuns :
       runs[r].branch = "4b" /\ runs[r].writeOk =>
         profiles[runs[r].uid] = "true"
  /\ \A r \in RunIds : runs[r].prev = "4b" =>
       /\ runs[r].trace = <<"fetchProfile">>
       /\ runs[r].pc = "done" =>
            \/ runs[r].branch = "3" /\ runs[r].data = "true"
            \/ runs[r].branch = "1" /\ ProfileReadFailed(r)

C5_Witness ==
  \E r1, r2 \in DoneRuns :
    /\ runs[r1].branch = "4b" /\ runs[r1].writeOk
    /\ runs[r2].uid = runs[r1].uid
    /\ runs[r2].prev = "4b" /\ runs[r2].branch = "3"

\* C6 as stated: a completed run for an identity with is_approved unset and
\* pending_users.status = rejected ended rejected with isPendingApproval
\* false, revoked and notified, and left the stored is_approved false.
C6_AsStated ==
  \A r \in DoneRuns :
    runs[r].data = "unset" /\ pending_users[runs[r].uid] = "rejected" =>
      /\ runs[r].branch = "4c"
      /\ runs[r].outApproved = "false" /\ ~runs[r].outPending
      /\ profiles[runs[r].uid] = "false"

\* The states of C6 and its snapshot step.
C6_State ==
  /\ \A r \in RunIds : runs[r].pend = "rejected" =>
       /\ runs[r].branch = "4c"
       /\ runs[r].pc \in {"update", "signOut", "done"}
       /\ runs[r].pc = "update" =>
            runs[r].trace = <<"fetchProfile", "fetchPending", "update">>
       /\ runs[r].pc = "signOut" =>
            runs[r].trace = <<"fetchProfile", "fetchPending", "update", "signOut">>
       /\ runs[r].pc = "done" =>
            runs[r].trace = <<"fetchProfile", "fetchPending", "update", "signOut",
                              "signOutReturned", "toastDenied", "navigate">>
  /\ \A r \in DoneRuns :
       runs[r].branch = "4c" /\ runs[r].writeOk =>
         profiles[runs[r].uid] = "false"
  /\ \A r \in RunIds : runs[r].prev = "4c" =>
       /\ Count(runs[r].trace, "fetchPending") = 0
       /\ Count(runs[r].trace, "update") = 0
       /\ runs[r].pc # "fetchProfile" =>
            \/ runs[r].branch = "2" /\ runs[r].data = "false"
            \/ runs[r].branch = "1" /\ ProfileReadFailed(r)

C6_Step ==
  \A r \in RunIds :
    runs[r].pc = "fetchPending" /\ runs'[r].pend = "rejected" =>
      Sets(r, "false", FALSE)

\* C6 (amended): a run that reads status rejected sets isApproved = false and
\* isPendingApproval = false, issues the update is_approved = false, then
\* signOut, then the rejection toast; when the update succeeds the stored
\* is_approved is false from the run's completion on, and a run for the same
\* identity started afterwards fetches no pending_users row and writes
\* nothing: it is in branch 2, or in branch 1 if its profile fetch fails.
C6_MirroredRejection == []C6_State /\ [][C6_Step]_vars

C6_Witness ==
  \E r1, r2 \in DoneRuns :
    /\ runs[r1].branch = "4c" /\ runs[r1].writeOk
    /\ runs[r2].uid = runs[r1].uid
    /\ runs[r2].prev = "4c" /\ runs[r2].branch = "2"

\* The states of C7 and its snapshot step.
C7_State ==
  \A r \in RunIds :
    (/\ runs[r].data = "unset" /\ runs[r].pend = "null"
     /\ pending_users[runs[r].uid] = "absent") =>
      /\ runs[r].branch = "4d"
      /\ runs[r].pc = "done"
      /\ runs[r].trace = <<"fetchProfile", "fetchPending">>
      /\ ~runs[r].writeOk

C7_Step ==
  \A r \in RunIds :
    (/\ runs[r].pc = "fetchPending" /\ runs'[r].pc # "fetchPending"
     /\ pending_users[runs[r].uid] = "absent") =>
      /\ Sets(r, "true", FALSE)
      /\ UNCHANGED <<profiles, pending_users, session>>

C8_SignedOutSnapshotCleared ==
  /\ (user = None /\ effectUser = None) =>
       /\ profile = NoProfile
       /\ isApproved = "null"
       /\ isPendingApproval = FALSE
  /\ \A r \in RunIds : runs[r].branch = "0" => runs[r].trace = <<>>

\* C9: in the terminating branches the toast and the navigation occur only
\* once the awaited signOut has returned, in the order signOut call, signOut
\* returned, toast, navigate; until it returns neither has occurred, and when
\* it has returned both have.
C9_RevokeThenNotifyThenRedirect ==
  \A r \in RunIds :
    LET t == runs[r].trace
        n == Len(t)
        Toasts == {"toastDenied", "toastPending"}
    IN /\ runs[r].branch \in Terminating =>
            IF runs[r].pc = "done"
            THEN /\ n >= 4
                 /\ t[n - 3] = "signOut"
                 /\ t[n - 2] = "signOutReturned"
                 /\ t[n - 1] \in Toasts
                 /\ t[n] = "navigate"
                 /\ \A i \in 1..(n - 2) : t[i] \notin Toasts \cup {"navigate"}
            ELSE \A i \in 1..n :
                   t[i] \notin Toasts \cup {"navigate", "signOutReturned"}
       /\ (\E i \in 1..n : t[i] \in Toasts \cup {"navigate"}) =>
            runs[r].branch \in Terminating

C9_Witness ==
  /\ \E r \in DoneRuns : runs[r].branch = "4c"
  /\ \E r \in DoneRuns : runs[r].branch \in {"2", "4a"}

\* C10 as stated: two completed runs for the same identity against the same
\* stored state (no run has changed that identity's profile row) ended in the
\* same branch.
C10_AsStated ==
  \A r1, r2 \in DoneRuns :
    (/\ runs[r1].uid # None /\ runs[r1].uid = runs[r2].uid
     /\ \A r \in RunIds : runs[r].uid = runs[r1].uid => ~runs[r].writeOk) =>
      runs[r1].branch = runs[r2].branch

\* The branch the decision procedure of the specification assigns to a
\* stored state.
TerminalBranch(approved, status) ==
  CASE approved = "absent" -> "1"
    [] approved = "false"  -> "2"
    [] approved = "true"   -> "3"
    [] OTHER -> CASE status = "pending"  -> "4a"
                  [] status = "approved" -> "4b"
                  [] status = "rejected" -> "4c"
                  [] OTHER               -> "4d"

\* C10 (amended): the terminal branch of a run whose reads succeed is the
\* branch the decision procedure assigns to the stored records it read, so
\* two such runs for the same identity that read the same stored state end in
\* the same branch, whatever snapshot earlier runs left; a failed read is
\* taken as an absent record.
C10_BranchFunctionOfRecords ==
  /\ \A r \in DoneRuns :
       (runs[r].uid # None /\ ~ProfileReadFailed(r) /\ ~PendingReadFailed(r)) =>
         runs[r].branch =
           TerminalBranch(IF runs[r].data = "null" THEN "absent" ELSE runs[r].data,
                          pending_users[runs[r].uid])
  /\ \A r1, r2 \in DoneRuns :
       (/\ runs[r1].uid # None /\ runs[r1].uid = runs[r2].uid
        /\ runs[r1].data = runs[r2].data /\ runs[r1].pend = runs[r2].pend) =>
         runs[r1].branch = runs[r2].branch

C10_Witness ==
  \E r1, r2 \in DoneRuns :
    /\ r1 < r2 /\ runs[r1].uid # None /\ runs[r1].uid = runs[r2].uid
    /\ runs[r1].data = "unset" /\ runs[r2].data = "unset"
    /\ ~PendingReadFailed(r1) /\ ~PendingReadFailed(r2)
    /\ runs[r1].branch = "4a" /\ runs[r2].branch = "4a"
    /\ isApproved = "null"
\* C11: once the run for the current identity has completed (the hook is
\* mounted and no newer user is waiting for the profile effect), profile,
\* isApproved and isPendingApproval were each last set by that run.
C11_RecomputedInFull ==
  (/\ mounted /\ nruns > 0 /\ user = effectUser /\ ~fresh
   /\ runs[nruns].pc = "done") =>
    \A f \in {"profile", "isApproved", "isPendingApproval"} : snapBy[f] = nruns

\* Invocation r is suspended on an await.
InFlight(r) == runs[r].pc \in {"fetchProfile", "fetchPending", "update", "signOut"}

\* C12: no two loadProfile invocations for the same identity id are in flight
\* at the same time.
C12_OneRunPerIdentity ==
  \A r1, r2 \in RunIds :
    (r1 # r2 /\ InFlight(r1) /\ InFlight(r2)) => runs[r1].uid # runs[r2].uid

SideEffects == {"update", "signOut", "toastDenied", "toastPending", "navigate"}

CountIn(seq, S) == Cardinality({i \in DOMAIN seq : seq[i] \in S})

\* C13: after the hook is unmounted no snapshot field changes and no run
\* issues a profile write, a signOut, a toast or a navigation.
C13_NothingAppliedAfterTeardown ==
  [][~mounted =>
       /\ UNCHANGED <<profile, isApproved, isPendingApproval>>
       /\ \A r \in RunIds :
            CountIn(runs'[r].trace, SideEffects) = CountIn(runs[r].trace, SideEffects)]_vars

\* C14: when the profile fetch returns nothing the run ends there, having
\* made no other call, and the snapshot shows profile none, isApproved null
\* and isPendingApproval false, whatever it showed before.
C14_NoProfileUnresolved ==
  [][\A r \in RunIds :
       (runs[r].pc = "fetchProfile" /\ runs'[r].data = "null") =>
         /\ runs'[r].pc = "done"
         /\ runs'[r].trace = <<"fetchProfile">>
         /\ mounted => /\ profile' = NoProfile
                       /\ isApproved' = "null"
                       /\ isPendingApproval' = FALSE]_vars

\* C15: a run that fetched is_approved unset and whose pending_users lookup
\* failed ends like a run that found no row: grandfather branch 4d, approved,
\* isPendingApproval false, its only calls the two reads (no update, no
\* signOut, no toast).
C15_FailedLookupIsAbsent ==
  \A r \in RunIds :
    (runs[r].data = "unset" /\ PendingReadFailed(r)) =>
      /\ runs[r].branch = "4d"
      /\ runs[r].pc = "done"
      /\ runs[r].trace = <<"fetchProfile", "fetchPending">>
      /\ runs[r].outApproved = "true" /\ ~runs[r].outPending
      /\ ~runs[r].writeOk

C15_Witness ==
  \E r \in DoneRuns :
    /\ runs[r].data = "unset" /\ PendingReadFailed(r)
    /\ pending_users[runs[r].uid] = "rejected"
    /\ snapBy.isApproved = r /\ isApproved = "true" /\ ~isPendingApproval
\* C16 as stated: after a run whose mirroring write failed, a completed run
\* for the same identity against the unchanged stored state (is_approved
\* still unset) took the same branch and issued the write again.
C16_AsStated ==
  \A r \in DoneRuns :
    (runs[r].prevFailed # "none" /\ profiles[runs[r].uid] = "unset") =>
      /\ runs[r].branch = runs[r].prevFailed
      /\ Count(runs[r].trace, "update") = 1

\* C16 (amended): a run in branch 4b or 4c issues its write once and ends
\* with the same calls and the same isApproved / isPendingApproval whether
\* the write succeeded or failed; a later run for the same identity that
\* reads the unchanged records (is_approved unset, the same status) takes the
\* same branch and issues the same write once more.
C16_WriteFailureSilent ==
  /\ \A r \in RunIds : Count(runs[r].trace, "update") <= 1
  /\ \A r \in DoneRuns :
       /\ runs[r].branch = "4b" =>
            /\ runs[r].trace = <<"fetchProfile", "fetchPending", "update">>
            /\ runs[r].outApproved = "true" /\ ~runs[r].outPending
       /\ runs[r].branch = "4c" =>
            /\ runs[r].trace = <<"fetchProfile", "fetchPending", "update", "signOut",
                                 "signOutReturned", "toastDenied", "navigate">>
            /\ runs[r].outApproved = "false" /\ ~runs[r].outPending
  /\ \A r \in RunIds :
       (/\ runs[r].prevFailed # "none" /\ runs[r].data = "unset"
        /\ runs[r].pend \notin {"nil", "null"}) =>
         /\ runs[r].branch = runs[r].prevFailed
         /\ Count(runs[r].trace, "update") = 1

C16_Witness ==
  \E r1, r2 \in DoneRuns :
    /\ runs[r1].branch = "4b" /\ ~runs[r1].writeOk
    /\ runs[r2].uid = runs[r1].uid
    /\ runs[r2].prevFailed = "4b" /\ runs[r2].branch = "4b"
    /\ Count(runs[r2].trace, "update") = 1

\* C17: when the awaited signOut returns without having revoked the session,
\* the run still shows its toast and navigates to /login in the same
\* continuation, and is then complete.
C17_RevokeFailureStillRedirects ==
  [][\A r \in RunIds :
       (runs[r].pc = "signOut" /\ runs'[r].pc # "signOut" /\ session' # None) =>
         /\ runs'[r].pc = "done"
         /\ runs'[r].trace = runs[r].trace \o
              <<"signOutReturned",
                IF runs[r].branch = "4a" THEN "toastPending" ELSE "toastDenied",
                "navigate">>]_vars

C17_Witness ==
  \E r \in DoneRuns :
    /\ runs[r].branch \in Terminating
    /\ nauth = 0 /\ session = runs[r].uid
    /\ Count(runs[r].trace, "navigate") = 1

Branches == {"0", "1", "2", "3", "4a", "4b", "4c", "4d"}

\* C18: whatever way a store call or the revoke fails, a run that is no
\* longer awaiting has completed in one of its terminal branches, with the
\* toast and the navigation done if that branch is a terminating one.
C18_NoUncaughtFailure ==
  \A r \in RunIds :
    (runs[r].pc # "idle" /\ ~InFlight(r)) =>
      /\ runs[r].pc = "done"
      /\ runs[r].branch \in Branches
      /\ runs[r].branch \in Terminating => Count(runs[r].trace, "navigate") = 1

C20_PendingRegistrationReadOnly == [][pending_users' = pending_users]_vars

C20_Witness ==
  \E r \in DoneRuns :
    /\ runs[r].branch = "4b" /\ runs[r].writeOk
    /\ pending_users[runs[r].uid] = "approved"
    /\ profiles[runs[r].uid] = "true"
\* C21: the decision short-circuits on the first matching branch: a run
\* fetches pending_users only after it read a profile whose is_approved is
\* unset, and a run in branch 1, 2 or 3 has made no pending_users fetch and
\* no profiles write.
C21_ShortCircuit ==
  \A r \in RunIds :
    /\ Count(runs[r].trace, "fetchPending") > 0 =>
         /\ runs[r].data = "unset"
         /\ Count(runs[r].trace, "fetchPending") = 1
         /\ runs[r].trace[2] = "fetchPending"
    /\ runs[r].data \in {"null", "false", "true"} =>
         /\ runs[r].branch = TerminalBranch(
              IF runs[r].data = "null" THEN "absent" ELSE runs[r].data, "absent")
         /\ Count(runs[r].trace, "fetchPending") = 0
         /\ Count(runs[r].trace, "update") = 0
         /\ runs[r].pend = "nil"
         /\ ~runs[r].writeOk

C21_Witness ==
  /\ \E r \in DoneRuns : runs[r].branch = "2" /\ pending_users[runs[r].uid] = "absent"
  /\ \E r \in DoneRuns : runs[r].branch = "3"

\* C22: whenever the snapshot shows loading = false together with a non-null
\* identity, isApproved is not null and was set by a completed run for that
\* identity.
C22_SnapshotGatesAccess ==
  (mounted /\ ~loading /\ user # None) =>
    /\ isApproved # "null"
    /\ snapBy.isApproved # 0
    /\ runs[snapBy.isApproved].uid = user
    /\ runs[snapBy.isApproved].pc = "done"

\* The decision procedure approves the stored state of identity u.
StoreApproves(u) ==
  TerminalBranch(profiles[u], pending_users[u]) \in {"3", "4b", "4d"}

\* C23: whenever the snapshot exposes a non-null identity with isApproved =
\* true, the stored state of that identity is one the decision procedure
\* approves.
C23_ApprovedOnlyIfStoreApproves ==
  (mounted /\ user # None /\ isApproved = "true") => StoreApproves(user)

Revoking == {"signOut", "signOutReturned", "toastDenied", "toastPending", "navigate"}

\* C24: signOut, toast and navigate are called only by runs in the
\* terminating branches 2, 4a and 4c: a run in branch 3, 4b or 4d, a sign-out
\* run and a run whose profile fetch returned nothing have called none of
\* them, and no other run ends the session.
C24_OnlyTerminatingRunsRevoke ==
  []( \A r \in RunIds :
        /\ CountIn(runs[r].trace, Revoking) > 0 => runs[r].branch \in Terminating
        /\ runs[r].pc = "signOut" => runs[r].branch \in Terminating
        /\ runs[r].branch \in {"0", "1", "3", "4b", "4d"} =>
             /\ CountIn(runs[r].trace, Revoking) = 0
             /\ runs[r].pc \in {"update", "done"}
             /\ runs[r].pc = "update" => runs[r].branch = "4b" )
  /\ [][\A r \in RunIds :
          (runs'[r] # runs[r] /\ runs'[r].branch \notin Terminating) =>
            session' = session]_vars

C24_Witness ==
  /\ \E r \in DoneRuns : runs[r].branch = "4b" /\ session = runs[r].uid
  /\ \E r \in DoneRuns : runs[r].branch = "4d" /\ session = runs[r].uid
\* The states of C25.
C25_State ==
  /\ \A b \in {"4b", "4c"} : DOMAIN UpdatePayload(b) = {"is_approved"}
  /\ \A r \in RunIds :
       /\ Count(runs[r].trace, "update") <= 1
       /\ Count(runs[r].trace, "update") = 1 <=>
            (runs[r].data = "unset" /\ runs[r].pend \in {"approved", "rejected"})
       /\ runs[r].writeOk => Count(runs[r].trace, "update") = 1

\* The store step of C25.
C25_Step ==
  profiles' # profiles =>
    \E r \in RunIds :
      /\ runs[r].pc = "update" /\ runs'[r].pc # "update" /\ runs'[r].writeOk
      /\ runs[r].data = "unset" /\ profiles[runs[r].uid] = "unset"
      /\ \A i \in Ids \ {runs[r].uid} : profiles'[i] = profiles[i]
      /\ profiles'[runs[r].uid] =
           (IF pending_users[runs[r].uid] = "approved" THEN "true" ELSE "false")
      /\ pending_users[runs[r].uid] \in {"approved", "rejected"}
      /\ runs[r].pend = pending_users[runs[r].uid]

\* C25: the only store write of a run is the update of is_approved (and of no
\* other column) on the profiles row of the run's own identity, issued at most
\* once per run and only after is_approved was read as unset; the value is
\* true exactly when the pending_users status is approved and false exactly
\* when it is rejected, and no other row changes.
C25_OnlyOwnApprovalWritten == []C25_State /\ [][C25_Step]_vars

C25_Witness ==
  /\ \E r \in DoneRuns :
       runs[r].branch = "4c" /\ runs[r].writeOk /\ profiles[runs[r].uid] = "false"
  /\ \E i \in Ids : profiles[i] = "unset" /\ pending_users[i] = "approved"
\* The snapshot of a signed-out hook.
SignedOutShown ==
  profile = NoProfile /\ isApproved = "null" /\ ~isPendingApproval

\* A terminating run has revoked the session, and nobody has signed in since.
Revoked ==
  session = None /\ \E r \in DoneRuns : runs[r].branch \in Terminating /\ runs[r].revoked

\* Nothing is left to happen in a mounted hook: getSession() has resolved, the
\* profile effect has run for the current user and no run is in flight.
Settled ==
  /\ mounted /\ ~getSessionPending /\ user = effectUser /\ ~fresh
  /\ \A r \in RunIds : ~InFlight(r)

\* C26: after a terminating run has revoked the session, the snapshot
\* settles to the signed-out state (profile none, isApproved null,
\* isPendingApproval false), and once the sign-out run has shown that state
\* it stays until the session changes again.
C26_SignedOutAfterRevoke ==
  /\ []((Revoked /\ Settled) => SignedOutShown)
  /\ [][(/\ Revoked /\ session' = None
         /\ user = None /\ effectUser = None /\ SignedOutShown) =>
          SignedOutShown']_vars

\* ------------------------------------------------------------- fairness
\* A store or revoke call responds (with a row, with nothing or with a
\* failure) and the run that awaited it is resumed.
Respond ==
  \E r \in RunIds, ok \in BOOLEAN :
    /\ \/ ProfileResp(r, ok)
       \/ PendingResp(r, ok)
       \/ UpdateResp(r, ok)
       \/ SignOutResp(r, ok)
    /\ HookStep

\* While calls are outstanding, one of them responds.
Responds == WF_vars(Respond)

SpecLive == Spec /\ Responds

\* The calls of a run: reads, writes, revokes.
Reads(r) == CountIn(runs[r].trace, {"fetchProfile", "fetchPending"})

\* C27: when every store and revoke call responds, every run that was started
\* completes in one of the terminal branches (from some point on every
\* started run has), having made at most two reads, one write and one revoke.
C27_RunsTerminate ==
  /\ [](\A r \in RunIds :
          /\ Reads(r) <= 2
          /\ Count(runs[r].trace, "update") <= 1
          /\ Count(runs[r].trace, "signOut") <= 1
          /\ Len(runs[r].trace) <= 7)
  /\ <>[](\A r \in RunIds :
            runs[r].pc # "idle" => runs[r].pc = "done" /\ runs[r].branch \in Branches)

C27_Witness ==
  \E r \in DoneRuns :
    /\ runs[r].branch = "4c"
    /\ Reads(r) = 2
    /\ Count(runs[r].trace, "update") = 1
    /\ Count(runs[r].trace, "signOut") = 1
\* ------------------------------------------------ project-chat: claims
Answered == {r \in Reqs : requests[r].pc = "done" /\ requests[r].method = "POST"}

\* The calls that insert a row or reach the language-model provider.
Effects ==
  {"insertConversation", "insertUser", "insertAssistant", "embedding", "completion"}

\* C28: every request other than OPTIONS gets exactly one response; without
\* an Authorization header it is 401; else without projectId or message 400;
\* else with a token that resolves to no user 401; else with an unknown
\* project 404; and a request that has issued an insert or a language-model
\* call has passed all four checks.
C28_ChecksInOrder ==
  /\ \A r \in Reqs : requests[r].sent = (IF requests[r].pc = "done" THEN 1 ELSE 0)
  /\ \A r \in Answered :
       LET q == requests[r] IN
         /\ ~q.authHeader => q.status = 401
         /\ (q.authHeader /\ (~q.projectId \/ ~q.message)) => q.status = 400
         /\ (q.authHeader /\ q.projectId /\ q.message /\ q.user = "none") =>
              q.status = 401
         /\ (/\ q.authHeader /\ q.projectId /\ q.message /\ q.user = "user"
             /\ q.project = "none") => q.status = 404
  /\ \A r \in Reqs :
       LET q == requests[r] IN
         CountIn(q.calls, Effects) > 0 =>
           /\ q.authHeader /\ q.projectId /\ q.message
           /\ q.user = "user" /\ q.project = "row"

\* The places of a row in chat_messages.
RowsAt(c, role, r) ==
  {i \in DOMAIN chat_messages :
     chat_messages[i] = [conversation_id |-> c, role |-> role, content |-> r]}

\* The place of a call in the calls of a request (0 when it was not made).
CallAt(q, call) ==
  IF Count(q.calls, call) = 0 THEN 0
  ELSE CHOOSE i \in DOMAIN q.calls : q.calls[i] = call

\* C29: in the strict handler a 200 response carries the supplied
\* conversationId, or that of the conversation the request created; that
\* conversation holds the request's user message and, after it, its assistant
\* message, each once; the messages sent to the model are the system prompt,
\* the history read before the user message was saved, and the user message
\* as last entry, once; and an assistant message is stored only by a request
\* whose completion call has returned.
C29_PersistedInOrder ==
  /\ \A r \in Answered :
       LET q == requests[r]
           mine == [role |-> "user", content |-> r]
       IN (q.variant = "strict" /\ q.status = 200) =>
            /\ q.convoId = (IF q.conversationId # NoConversation
                            THEN q.conversationId ELSE r)
            /\ q.convoId \in chat_conversations
            /\ Cardinality(RowsAt(q.convoId, "user", r)) = 1
            /\ Cardinality(RowsAt(q.convoId, "assistant", r)) = 1
            /\ \A i \in RowsAt(q.convoId, "user", r) :
                 \A j \in RowsAt(q.convoId, "assistant", r) : i < j
            /\ Len(q.messages) = Len(q.history) + 2
            /\ q.messages[Len(q.messages)] = mine
            /\ Count(q.messages, mine) = 1
            /\ Count(q.history, mine) = 0
            /\ CallAt(q, "history") < CallAt(q, "insertUser")
  /\ \A r \in Reqs :
       LET q == requests[r] IN
         (\E c \in chat_conversations : RowsAt(c, "assistant", r) # {}) =>
           /\ q.pc = "done"
           /\ CallAt(q, "completion") > 0
           /\ CallAt(q, "completion") < CallAt(q, "insertAssistant")

C29_Witness ==
  \E r1, r2 \in Answered :
    /\ r1 # r2
    /\ requests[r1].variant = "strict" /\ requests[r1].status = 200
    /\ requests[r2].variant = "strict" /\ requests[r2].status = 200
    /\ requests[r1].convoId = Existing /\ requests[r2].convoId = Existing
    /\ \E i \in RowsAt(Existing, "user", r2) :
         \E j \in RowsAt(Existing, "assistant", r1) : i < j
    /\ \E r \in {r1, r2} : Len(requests[r].history) > 2
\* ------------------------------------------------ ProjectPilot: claims
\* C30: isLoading is true exactly while a simulated reply is pending; blank
\* input is never sent; and the replies shown plus the replies pending are
\* one for each user message shown.
C30_LoadingWhilePending ==
  /\ isLoading <=> timers # <<>>
  /\ \A i \in DOMAIN messages : Trim(messages[i].content) # ""
  /\ Cardinality({i \in DOMAIN messages : messages[i].role = "assistant"})
       + Len(timers)
     = Cardinality({i \in DOMAIN messages : messages[i].role = "user"})
====
